---- MODULE Spec2Model ----
(***************************************************************************)
(* Model of the hour-manager frontend (Vue 3 single-page application).     *)
(*                                                                         *)
(* Three views and the entry modal:                                         *)
(*   - DashboardView.vue: the mount-time projection fetch and the week-bar *)
(*     geometry helpers applied by the template to a week of the           *)
(*     projection;                                                         *)
(*   - SettingsView.vue: the weekly-hours / percent form, its two sync     *)
(*     handlers, loadConfig and save;                                      *)
(*   - HistoryView.vue: the paged entry list, its filter, pagination and   *)
(*     remove handlers, with every request it has in flight;               *)
(*   - HourEntryModal.vue, with the dashboard handlers that open it and    *)
(*     react to its events.                                                *)
(*                                                                         *)
(* Numbers.  JavaScript numbers are modelled by exact integer arithmetic:  *)
(*   - dashboard hour totals are whole hours;                              *)
(*   - a percentage computed by a bar helper is an exact fraction          *)
(*     [n, d] with d > 0 (the value n/d);                                  *)
(*   - in the settings form hours are hundredths of an hour and percents   *)
(*     are thousandths of a percent, so that a typed percent can carry     *)
(*     more than the two decimals the code rounds to.                      *)
(* An absent / null / undefined field is None (the empty tuple), a present *)
(* one is Some(v) (the one-element tuple).                                 *)
(***************************************************************************)
EXTENDS Integers, Sequences, FiniteSets, TLC

VARIABLES
  \* DashboardView.vue
  projection,      \* ref<DashboardProjection | null>: None or Some(week)
  loading,         \* ref(true)
  error,           \* ref<string | null>
  mountPc,         \* position of the onMounted callback: "fetching" | "done"
  tzShift,         \* hours by which the browser's UTC offset differs between
                   \* weekEnd and weekStart (a DST change inside the segment)
  bar,             \* what the template rendered for the week: None or Some(record)
  received,        \* status and body kind of the response the mount-time fetch
                   \* got: None or Some(record)
  \* SettingsView.vue
  closureStartDay, closureEndDay,
  weeklyHoursInput,   \* ref<number>: Some(hundredths of an hour) or None ('' typed)
  percentInput,       \* ref<string>: Some(thousandths of a percent) or None ('' typed)
  sLoading, sSaving, sError,
  sPc,                \* what the settings view awaits: "load" | "idle" | "save" | "left"
  saveRequest,        \* the PUT /v1/system-config in flight: None or Some(payload)
  route,              \* current route: "/settings" or "/"
  written,            \* the form fields the last handler assigned programmatically
  lastEvent,          \* the DOM event / callback whose handler ran last
  \* HistoryView.vue
  dateStart, dateEnd, \* ref(''): None ('' or a cleared field) or Some(day number)
  page,               \* ref(0)
  result,             \* ref<EntriesPageDto | null>: None or Some(response)
  hLoading, hError,
  deletingId,         \* ref<string | null>
  pending,            \* GET /v1/entries/paged requests in flight
  deleting,           \* DELETE /v1/entries/{id} requests in flight (entry ids)
  awaited,            \* the paged requests a removeEntry call is awaiting
  issued,             \* number of paged requests issued so far
  hPc,                \* "created" | "mounted"
  hEvent,             \* the history-view handler or completion that ran last
  \* DashboardView.vue (entry modal) and HourEntryModal.vue
  entryModalOpen,        \* ref(false), the modal's show prop
  entryModalInitialDate, \* ref<string | null>, the modal's initialDate prop
  date,               \* ref(''): None ('') or Some(day number)
  inputMode,          \* ref('range'): "range" | "direct"
  timeFrom, timeTo,   \* ref('09:00'), ref('18:00'): <<hours, minutes>> or None ('')
  directHours,        \* ref(8): Some(hundredths of an hour) or None ('' typed)
  description,        \* ref('')
  entriesForDay,      \* ref([]): the ids of the listed entries
  loadingEntries, submitting, mError,
  createRequest,      \* the POST /v1/entries in flight: None or Some(payload)
  listPending,        \* the GET /v1/entries requests in flight: their dates
  refetching,         \* number of projection refetches in flight
  emitted,            \* the events the modal emitted in the last step
  mEvent              \* the modal / dashboard handler or completion that ran last

dashVars == <<projection, loading, error, mountPc, tzShift, bar, received>>
settingsVars == <<closureStartDay, closureEndDay, weeklyHoursInput, percentInput,
                  sLoading, sSaving, sError, sPc, saveRequest, route, written,
                  lastEvent>>
historyVars == <<dateStart, dateEnd, page, result, hLoading, hError, deletingId,
                 pending, deleting, awaited, issued, hPc, hEvent>>
modalVars == <<entryModalOpen, entryModalInitialDate, date, inputMode, timeFrom,
               timeTo, directHours, description, entriesForDay, loadingEntries,
               submitting, mError, createRequest, listPending, refetching,
               emitted, mEvent>>
vars == <<dashVars, settingsVars, historyVars, modalVars>>

----------------------------------------------------------------------------
(* Optional values and exact fractions *)

None == <<>>
Some(v) == <<v>>
IsNull(x) == x = None
Val(x) == x[1]

\* JavaScript's x ?? d
Coalesce(x, d) == IF IsNull(x) THEN d ELSE Val(x)

\* Math.round(n / d) for d > 0: the nearest integer, a tie going up.
MathRound(n, d) == (2 * n + d) \div (2 * d)

Frac(n, d) == [n |-> n, d |-> d]
FracLe(a, b) == a.n * b.d <= b.n * a.d
FracEq(a, b) == a.n * b.d = b.n * a.d
Zero == Frac(0, 1)
Hundred == Frac(100, 1)

\* Math.min(100, x)
MathMin100(x) == IF FracLe(Hundred, x) THEN Hundred ELSE x

----------------------------------------------------------------------------
(* DashboardView.vue: week-bar geometry helpers                             *)
(* A week is [weekStart, weekEnd: day numbers (ISO dates), totalWorked,     *)
(* totalAdjusted, hoursAvailable, totalSegmentHours: None or Some(hours)].  *)

HOURS_PER_DAY == 24

HOUR_MS == 60 * 60 * 1000
DAY_MS == 24 * HOUR_MS

\* new Date(iso + 'T12:00:00').getTime(): local noon of the day, as UTC
\* milliseconds; utcOffset is the browser's offset (in hours) on that day.
NoonTime(day, utcOffset) == day * DAY_MS + 12 * HOUR_MS - utcOffset * HOUR_MS

\* Variant: Math.floor in place of Math.round.
weekSegmentDaysFloor(week) ==
  LET start == NoonTime(week.weekStart, 0)
      end == NoonTime(week.weekEnd, tzShift)
  IN ((end - start) \div DAY_MS) + 1

weekSegmentDays(week) ==
  LET start == NoonTime(week.weekStart, 0)
      end == NoonTime(week.weekEnd, tzShift)
  IN MathRound(end - start, DAY_MS) + 1

weekBarTotalHours(week) ==
  IF ~IsNull(week.totalSegmentHours) /\ Val(week.totalSegmentHours) > 0
  THEN Val(week.totalSegmentHours)
  ELSE HOURS_PER_DAY * weekSegmentDays(week)

\* Variant: the adjustment is left out.
weekEffectiveWorkedNoAdjust(week) == Coalesce(week.totalWorked, 0)

weekEffectiveWorked(week) ==
  Coalesce(week.totalWorked, 0) + Coalesce(week.totalAdjusted, 0)

\* Variant: the zero total is not guarded.
weekBarFillPercentNoZeroGuard(week) ==
  LET total == weekBarTotalHours(week)
  IN IF total < 0 THEN Zero
     ELSE MathMin100(Frac(weekEffectiveWorked(week) * 100, total))

weekBarFillPercent(week) ==
  LET total == weekBarTotalHours(week)
  IN IF total <= 0 THEN Zero
     ELSE MathMin100(Frac(weekEffectiveWorked(week) * 100, total))

weekMarkerAvailablePercent(week) ==
  LET total == weekBarTotalHours(week)
  IN IF total <= 0 \/ IsNull(week.hoursAvailable) THEN Zero
     ELSE MathMin100(Frac(Val(week.hoursAvailable) * 100, total))

\* Variant: the marker is also shown at the bar's end.
weekShowAvailableMarkerAtEnd(week) ==
  LET total == weekBarTotalHours(week)
  IN IF total <= 0 \/ IsNull(week.hoursAvailable) \/ Val(week.hoursAvailable) <= 0
     THEN FALSE
     ELSE Val(week.hoursAvailable) <= total

weekShowAvailableMarker(week) ==
  LET total == weekBarTotalHours(week)
  IN IF total <= 0 \/ IsNull(week.hoursAvailable) \/ Val(week.hoursAvailable) <= 0
     THEN FALSE
     ELSE Val(week.hoursAvailable) < total

\* Variant: the thresholds are compared with <=.
weekBarFillClassInclusive(week) ==
  LET worked == weekEffectiveWorked(week)
      available == Coalesce(week.hoursAvailable, 0)
  IN IF available <= 0 THEN "week-bar-fill--neutral"
     ELSE IF worked >= available THEN "week-bar-fill--done"
     ELSE IF worked * 100 <= 33 * available THEN "week-bar-fill--low"
     ELSE IF worked * 100 <= 66 * available THEN "week-bar-fill--mid"
     ELSE "week-bar-fill--high"

\* Variant: only a negative availability is neutral.
weekBarFillClassZeroAvailable(week) ==
  LET worked == weekEffectiveWorked(week)
      available == Coalesce(week.hoursAvailable, 0)
  IN IF available < 0 THEN "week-bar-fill--neutral"
     ELSE IF worked >= available THEN "week-bar-fill--done"
     ELSE IF worked * 100 < 33 * available THEN "week-bar-fill--low"
     ELSE IF worked * 100 < 66 * available THEN "week-bar-fill--mid"
     ELSE "week-bar-fill--high"

\* ratio < 0.33 and ratio < 0.66 on ratio = worked / available, available > 0:
\* with whole hours the quotient is compared exactly.
weekBarFillClass(week) ==
  LET worked == weekEffectiveWorked(week)
      available == Coalesce(week.hoursAvailable, 0)
  IN IF available <= 0 THEN "week-bar-fill--neutral"
     ELSE IF worked >= available THEN "week-bar-fill--done"
     ELSE IF worked * 100 < 33 * available THEN "week-bar-fill--low"
     ELSE IF worked * 100 < 66 * available THEN "week-bar-fill--mid"
     ELSE "week-bar-fill--high"

\* The week row of the template (lines 293-310): what is rendered for a week.
\* The marker position is evaluated only when v-if shows the marker.
WeekRow(week) ==
  [total |-> weekBarTotalHours(week),
   fillClass |-> weekBarFillClass(week),
   fill |-> weekBarFillPercent(week),
   marker |-> IF weekShowAvailableMarker(week)
              THEN Some(weekMarkerAvailablePercent(week)) ELSE None]

\* v-if="loading" / v-else-if="error" / v-else-if="!projection" / v-else
Render(l, e, p) ==
  IF l \/ ~IsNull(e) \/ IsNull(p) THEN None ELSE Some(WeekRow(Val(p)))

\* The branch of that v-if chain the template shows: the "Carregando" line,
\* the error message, the "Nenhuma configuração de fechamento" message, or
\* the dashboard.
DashboardBranch(l, e, p) ==
  IF l THEN "dashboard-loading"
  ELSE IF ~IsNull(e) THEN "dashboard-error"
  ELSE IF IsNull(p) THEN "dashboard-empty"
  ELSE "dashboard"

----------------------------------------------------------------------------
(* Inputs of the dashboard: what the projection endpoint can answer         *)

MaxDay == 2
Days == 0 .. MaxDay
TzShifts == {-1, 0, 1}

SegmentHoursValues == {None, Some(-24), Some(0), Some(100), Some(168)}
WorkedValues == {None, Some(0), Some(33), Some(50), Some(66), Some(100)}
AdjustedValues == {None, Some(-60), Some(-1), Some(0), Some(10)}
AvailableValues == {None, Some(-8), Some(0), Some(94), Some(100), Some(168), Some(200)}

Weeks ==
  [weekStart : Days, weekEnd : Days,
   totalWorked : WorkedValues, totalAdjusted : AdjustedValues,
   hoursAvailable : AvailableValues, totalSegmentHours : SegmentHoursValues]

\* An HTTP response to GET /v1/dashboard/projection: a JSON body, a null
\* body, an empty body (''), or 204 No Content.
ProjectionResponses ==
  [status : {200}, kind : {"json"}, data : Weeks]
    \cup [status : {200, 204}, kind : {"null", "empty"}]

\* What a rejected request throws: an Error with a message (axios), or
\* something that is not an Error.
Failures ==
  { [isError |-> TRUE, message |-> "Network Error"],
    [isError |-> TRUE, message |-> "timeout of 10000ms exceeded"],
    [isError |-> FALSE, message |-> ""] }

\* e instanceof Error ? e.message : fallback
ErrorMessage(e, fallback) == IF e.isError THEN e.message ELSE fallback

\* services/api: fetchProjection
fetchProjection(res) ==
  IF res.status = 204 \/ res.kind = "null" \/ res.kind = "empty"
  THEN None ELSE Some(res.data)

----------------------------------------------------------------------------
(* DashboardView.vue: state and the onMounted callback                      *)

InitDashboard ==
  /\ projection = None
  /\ loading = TRUE
  /\ error = None
  /\ mountPc = "fetching"
  /\ tzShift \in TzShifts
  /\ bar = Render(TRUE, None, None)
  /\ received = None

\* Variant: a missing projection is reported as a failure.
MountFetchResolvedEmptyIsError ==
  /\ mountPc = "fetching"
  /\ \E res \in ProjectionResponses :
       /\ projection' = fetchProjection(res)
       /\ loading' = FALSE
       /\ error' = IF IsNull(fetchProjection(res))
                   THEN Some("Erro ao carregar projeção") ELSE error
       /\ mountPc' = "done"
       /\ bar' = Render(FALSE, error', fetchProjection(res))
       /\ received' = Some([status |-> res.status, kind |-> res.kind])
  /\ UNCHANGED tzShift

\* onMounted: the awaited fetchProjection() resolves with one of the given
\* responses; finally loading = false.
MountFetchResolvedFrom(responses) ==
  /\ mountPc = "fetching"
  /\ \E res \in responses :
       /\ projection' = fetchProjection(res)
       /\ loading' = FALSE
       /\ error' = error
       /\ mountPc' = "done"
       /\ bar' = Render(FALSE, error, fetchProjection(res))
       /\ received' = Some([status |-> res.status, kind |-> res.kind])
  /\ UNCHANGED tzShift

MountFetchResolved == MountFetchResolvedFrom(ProjectionResponses)

\* onMounted: the awaited fetchProjection() rejects (network failure, timeout).
MountFetchRejected ==
  /\ mountPc = "fetching"
  /\ \E e \in Failures :
       /\ error' = Some(ErrorMessage(e, "Erro ao carregar projeção"))
       /\ loading' = FALSE
       /\ projection' = projection
       /\ mountPc' = "done"
       /\ bar' = Render(FALSE, Some(ErrorMessage(e, "Erro ao carregar projeção")), projection)
  /\ UNCHANGED <<tzShift, received>>

----------------------------------------------------------------------------
(* SettingsView.vue: the hours / percent reconciler                         *)
(* The hours field holds Some(hundredths of an hour), the percent field     *)
(* Some(thousandths of a percent); None is the empty string an emptied or   *)
(* non-numeric number input yields.                                         *)

HOURS_IN_WEEK == 168

\* h <= 0 || !Number.isFinite(h); '' <= 0 is true in JavaScript.
NotPositiveFinite(field) == IsNull(field) \/ Val(field) <= 0

\* Variant: Math.floor in place of Math.round.
percentFromHoursFloor(hours) ==
  IF NotPositiveFinite(hours) THEN 0
  ELSE (Val(hours) * 100) \div HOURS_IN_WEEK

\* computed percentFromHours, in hundredths of a percent:
\* Math.round((h / HOURS_IN_WEEK) * 10000) / 100
percentFromHours(hours) ==
  IF NotPositiveFinite(hours) THEN 0
  ELSE MathRound(Val(hours) * 100, HOURS_IN_WEEK)

\* Variant: the hours are rounded to whole hours.
hoursFromPercentWholeHours(percent) ==
  IF IsNull(percent) \/ Val(percent) < 0 \/ Val(percent) > 100 * 1000 THEN 0
  ELSE 100 * MathRound(Val(percent) * HOURS_IN_WEEK, 100 * 1000)

\* Variant: 100 percent is rejected.
hoursFromPercentBelow100(percent) ==
  IF IsNull(percent) \/ Val(percent) < 0 \/ Val(percent) >= 100 * 1000 THEN 0
  ELSE MathRound(Val(percent) * HOURS_IN_WEEK, 1000)

\* computed hoursFromPercent, in hundredths of an hour: p = parseFloat(field);
\* 0 unless 0 <= p <= 100, else Math.round((p / 100) * HOURS_IN_WEEK * 100) / 100
hoursFromPercent(percent) ==
  IF IsNull(percent) \/ Val(percent) < 0 \/ Val(percent) > 100 * 1000 THEN 0
  ELSE MathRound(Val(percent) * HOURS_IN_WEEK, 1000)

\* x.toFixed(2) of x = n/d hundredths (d > 0), read back as thousandths:
\* the nearest hundredth, a tie going away from zero.
ToFixed2(n, d) ==
  IF n >= 0 THEN 10 * MathRound(n, d) ELSE -(10 * MathRound(-n, d))

\* Variant: the fraction of the week is written, not the percentage.
syncPercentFromHoursFraction(hours) == Some(ToFixed2(percentFromHours(hours), 100))

\* syncPercentFromHours: the new percent field
syncPercentFromHours(hours) == Some(ToFixed2(percentFromHours(hours), 1))

\* Variant: the hours field is overwritten whatever the computed value.
syncHoursFromPercentAlways(hours, percent) == Some(hoursFromPercent(percent))

\* syncHoursFromPercent: the new hours field
\* (Math.round(h * 100) / 100 of a value of two decimals is that value)
syncHoursFromPercent(hours, percent) ==
  LET h == hoursFromPercent(percent)
  IN IF h > 0 THEN Some(MathRound(h * 100, 100)) ELSE hours

\* (h / HOURS_IN_WEEK * 100).toFixed(2), h in hundredths of an hour
PercentOfHoursFixed(h) == ToFixed2(h * 100, HOURS_IN_WEEK)

----------------------------------------------------------------------------
(* SettingsView.vue: inputs                                                 *)

\* What the user can type into the hours field (hundredths of an hour).
HoursTyped == {None} \cup {Some(h) : h \in {-100, 0, 1, 50, 4000, 8400, 16800, 20000}}

\* What the user can type into the percent field (thousandths of a percent).
PercentTyped ==
  {None} \cup {Some(p) : p \in {-5000, 0, 1, 10, 23810, 50000, 50004,
                                100000, 100001, 150000}}

ClosureDaysTyped == {1, 15, 31}

\* Finer input grids for the two conversions.  Both conversions repeat with a
\* period of 0.25 percent / 0.42 hours (168 / 100 = 42 / 25), so a grid of a
\* few periods from 0, with the ends of the valid range added, shows every
\* rounding case.  An hours value h with h / 168 * 10000 exactly half-way
\* between two integers (an odd multiple of 0.21 h) is left out: there the
\* double-precision quotient falls on either side of the tie.
MaxPercentCenti == 250
MaxHoursCenti == 200

PercentGrid ==
  {Some(10 * c) : c \in 0 .. MaxPercentCenti}
    \cup {None}
    \cup {Some(p) : p \in {-5000, -10, 1, 5, 23810, 50000, 99990, 100000,
                           100010, 150000}}

HoursGrid ==
  {Some(h) : h \in {x \in 0 .. MaxHoursCenti : x % 42 # 21}}
    \cup {None}
    \cup {Some(h) : h \in {-100, 4000, 16800}}

\* What GET /v1/system-config can answer: nothing, or a configuration.
Configs ==
  {None} \cup
  {Some(c) : c \in [closureStartDay : {1, 5}, closureEndDay : {31},
                    expectedWeeklyHours :
                      {None, Some(-1000), Some(0), Some(3750), Some(4000)}]}

----------------------------------------------------------------------------
(* SettingsView.vue: state and handlers                                     *)

\* the refs of the view and the position of its setup
InitSettingsRefs ==
  /\ closureStartDay = 1
  /\ closureEndDay = 31
  /\ weeklyHoursInput = Some(4000)
  /\ percentInput = Some(23810)
  /\ sLoading = TRUE
  /\ sSaving = FALSE
  /\ sError = None
  /\ sPc = "load"
  /\ saveRequest = None
  /\ written = {}
  /\ lastEvent = "mount"

InitSettings == InitSettingsRefs /\ route = "/settings"

\* template: v-if="loading" / v-else-if="error" / v-else (the form)
FormShown == route = "/settings" /\ ~sLoading /\ IsNull(sError)

\* Variant: the button is disabled only while saving.
SaveDisabledWhileSaving == sSaving

\* template: :disabled="saving || weeklyHoursInput <= 0"
SaveDisabled == sSaving \/ IsNull(weeklyHoursInput) \/ Val(weeklyHoursInput) <= 0

\* Variant: the loaded hours are stored, the percent field is not refreshed.
LoadConfigResolvedHoursOnly ==
  /\ sPc = "load"
  /\ \E config \in Configs :
       IF ~IsNull(config)
       THEN /\ closureStartDay' = Val(config).closureStartDay
            /\ closureEndDay' = Val(config).closureEndDay
            /\ IF ~IsNull(Val(config).expectedWeeklyHours)
               THEN /\ weeklyHoursInput' = Val(config).expectedWeeklyHours
                    /\ written' = {"weeklyHoursInput"}
               ELSE /\ UNCHANGED weeklyHoursInput
                    /\ written' = {}
       ELSE /\ UNCHANGED <<closureStartDay, closureEndDay, weeklyHoursInput>>
            /\ written' = {}
  /\ sLoading' = FALSE
  /\ sPc' = "idle"
  /\ lastEvent' = "loadResolved"
  /\ UNCHANGED <<percentInput, sSaving, sError, saveRequest, route>>

\* loadConfig: getSystemConfig() resolves.
LoadConfigResolved ==
  /\ sPc = "load"
  /\ \E config \in Configs :
       IF ~IsNull(config)
       THEN /\ closureStartDay' = Val(config).closureStartDay
            /\ closureEndDay' = Val(config).closureEndDay
            /\ IF ~IsNull(Val(config).expectedWeeklyHours)
               THEN /\ weeklyHoursInput' = Val(config).expectedWeeklyHours
                    /\ percentInput' =
                         Some(PercentOfHoursFixed(Val(Val(config).expectedWeeklyHours)))
                    /\ written' = {"weeklyHoursInput", "percentInput"}
               ELSE /\ UNCHANGED <<weeklyHoursInput, percentInput>>
                    /\ written' = {}
       ELSE /\ UNCHANGED <<closureStartDay, closureEndDay, weeklyHoursInput,
                           percentInput>>
            /\ written' = {}
  /\ sLoading' = FALSE
  /\ sPc' = "idle"
  /\ lastEvent' = "loadResolved"
  /\ UNCHANGED <<sSaving, sError, saveRequest, route>>

\* loadConfig: getSystemConfig() rejects.
LoadConfigRejected ==
  /\ sPc = "load"
  /\ \E e \in Failures :
       sError' = Some(ErrorMessage(e, "Erro ao carregar configuração"))
  /\ sLoading' = FALSE
  /\ sPc' = "idle"
  /\ written' = {}
  /\ lastEvent' = "loadRejected"
  /\ UNCHANGED <<closureStartDay, closureEndDay, weeklyHoursInput, percentInput,
                 sSaving, saveRequest, route>>

\* An input event on #weekly-hours: v-model.number stores the typed value,
\* then @input="syncPercentFromHours" runs.
\* Variant: the write to the percent field runs the percent field's handler.
HoursInputFromLoop(typedValues) ==
  /\ FormShown
  /\ \E typed \in typedValues :
       /\ percentInput' = syncPercentFromHours(typed)
       /\ weeklyHoursInput' =
            syncHoursFromPercent(typed, syncPercentFromHours(typed))
       /\ written' = IF hoursFromPercent(syncPercentFromHours(typed)) > 0
                     THEN {"percentInput", "weeklyHoursInput"}
                     ELSE {"percentInput"}
  /\ lastEvent' = "hoursInput"
  /\ UNCHANGED <<closureStartDay, closureEndDay, sLoading, sSaving, sError, sPc,
                 saveRequest, route>>

\* The assignment to percentInput.value is no DOM event: no handler follows.
HoursInputFrom(typedValues) ==
  /\ FormShown
  /\ \E typed \in typedValues :
       /\ weeklyHoursInput' = typed
       /\ percentInput' = syncPercentFromHours(typed)
  /\ written' = {"percentInput"}
  /\ lastEvent' = "hoursInput"
  /\ UNCHANGED <<closureStartDay, closureEndDay, sLoading, sSaving, sError, sPc,
                 saveRequest, route>>

HoursInput == HoursInputFrom(HoursTyped)

\* An input event on #percent-input: v-model stores the typed value, then
\* @input="syncHoursFromPercent" runs.
PercentInputFrom(typedValues) ==
  /\ FormShown
  /\ \E typed \in typedValues :
       /\ percentInput' = typed
       /\ weeklyHoursInput' = syncHoursFromPercent(weeklyHoursInput, typed)
       /\ written' = IF hoursFromPercent(typed) > 0 THEN {"weeklyHoursInput"} ELSE {}
  /\ lastEvent' = "percentInput"
  /\ UNCHANGED <<closureStartDay, closureEndDay, sLoading, sSaving, sError, sPc,
                 saveRequest, route>>

PercentInput == PercentInputFrom(PercentTyped)

\* An input event on #closure-start or #closure-end (v-model.number only).
ClosureInput ==
  /\ FormShown
  /\ \E day \in ClosureDaysTyped :
       \/ closureStartDay' = day /\ UNCHANGED closureEndDay
       \/ closureEndDay' = day /\ UNCHANGED closureStartDay
  /\ written' = {}
  /\ lastEvent' = "closureInput"
  /\ UNCHANGED <<weeklyHoursInput, percentInput, sLoading, sSaving, sError, sPc,
                 saveRequest, route>>

\* save(), up to its await: validation, then the request is sent.
save ==
  IF NotPositiveFinite(weeklyHoursInput)
  THEN /\ sError' = Some("Informe uma expectativa de horas válida.")
       /\ UNCHANGED <<sSaving, sPc, saveRequest>>
  ELSE /\ sSaving' = TRUE
       /\ sError' = None
       /\ saveRequest' = Some([closureStartDay |-> closureStartDay,
                               closureEndDay |-> closureEndDay,
                               expectedWeeklyHours |-> Val(weeklyHoursInput)])
       /\ sPc' = "save"

\* A click on the save button, which the template disables while saving or
\* while the hours field is <= 0.
SaveClick ==
  /\ FormShown
  /\ ~SaveDisabled
  /\ save
  /\ written' = {}
  /\ lastEvent' = "saveClick"
  /\ UNCHANGED <<closureStartDay, closureEndDay, weeklyHoursInput, percentInput,
                 sLoading, route>>

\* save(): saveSystemConfig resolves; the percent field is rewritten from the
\* hours captured when save was called, the router is pushed to '/'.
SaveResolved ==
  /\ sPc = "save"
  /\ percentInput' = Some(PercentOfHoursFixed(Val(saveRequest).expectedWeeklyHours))
  /\ route' = "/"
  /\ sSaving' = FALSE
  /\ saveRequest' = None
  /\ sPc' = "left"
  /\ written' = {"percentInput"}
  /\ lastEvent' = "saveResolved"
  /\ UNCHANGED <<closureStartDay, closureEndDay, weeklyHoursInput, sLoading, sError>>

\* save(): saveSystemConfig rejects.
SaveRejected ==
  /\ sPc = "save"
  /\ \E e \in Failures : sError' = Some(ErrorMessage(e, "Erro ao salvar"))
  /\ sSaving' = FALSE
  /\ saveRequest' = None
  /\ sPc' = "idle"
  /\ written' = {}
  /\ lastEvent' = "saveRejected"
  /\ UNCHANGED <<closureStartDay, closureEndDay, weeklyHoursInput, percentInput,
                 sLoading, route>>

----------------------------------------------------------------------------
(* HistoryView.vue                                                          *)
(*                                                                          *)
(* A date is a day number, and the ref holds its ISO string, which the code  *)
(* compares as a string.  A paged request in flight is a record of the      *)
(* parameters it was issued with and of its position seq in the order of    *)
(* issue.  The stored response keeps the request it answers.                *)
(* Entry ids are non-empty strings.                                         *)
(*                                                                          *)
(* Vue runs a watch callback after the handler that changed the source and  *)
(* before any other event or completion; one handler together with the      *)
(* watch callbacks it triggers is one action.                               *)

MaxDate == 3
MaxPages == 2
MaxRequests == 4

Dates == 1 .. MaxDate
DatesTyped == {None} \cup {Some(d) : d \in Dates}

\* setDefaultRange: from two months ago to today
DefaultStart == 1
DefaultEnd == 2

EntryIds == {"a", "b"}

\* EntriesPageDto sent by the server: no entries at all, or both entries on
\* a page of a list of one or more pages.
PageResponses ==
  {[totalPages |-> 0, content |-> {}]}
    \cup [totalPages : 1 .. MaxPages, content : {EntryIds}]

\* Day d is 1 January of this year: 2025, 2026, then 10000 and later years
\* (an <input type="date"> without a max attribute takes years of more than
\* four digits).
YearOf(d) == IF d <= 2 THEN 2024 + d ELSE 9997 + d

\* decimal digits of n
RECURSIVE Digits(_)
Digits(n) == IF n < 10 THEN <<n>> ELSE Append(Digits(n \div 10), n % 10)

\* The value of a date input, "YYYY-01-01": the digits of the year; what
\* follows them is the same for every day and starts with '-', which sorts
\* before every digit.
IsoDate(d) == Digits(YearOf(d))

\* a <= b on two such strings (JavaScript compares strings code unit by code
\* unit)
RECURSIVE StringLe(_, _)
StringLe(a, b) ==
  IF a = <<>> THEN TRUE
  ELSE IF b = <<>> THEN FALSE
  ELSE IF Head(a) # Head(b) THEN Head(a) < Head(b)
  ELSE StringLe(Tail(a), Tail(b))

\* computed canFetch
canFetch(ds, de) ==
  ~IsNull(ds) /\ ~IsNull(de) /\ StringLe(IsoDate(Val(ds)), IsoDate(Val(de)))

InitHistory ==
  /\ dateStart = None
  /\ dateEnd = None
  /\ page = 0
  /\ result = None
  /\ hLoading = FALSE
  /\ hError = None
  /\ deletingId = None
  /\ pending = {}
  /\ deleting = {}
  /\ awaited = {}
  /\ issued = 0
  /\ hPc = "created"
  /\ hEvent = "setup"

\* The requests issued by n consecutive fetchPage calls made while the refs
\* hold ds, de and pg.
Requests(ds, de, pg, n) ==
  {[seq |-> issued + i, dateStart |-> ds, dateEnd |-> de, page |-> pg] :
     i \in 1 .. n}

\* fetchPage up to its await, called n times in a row while the refs hold
\* ds, de and pg.
fetchPage(ds, de, pg, n) ==
  IF canFetch(ds, de) /\ n > 0
  THEN /\ hLoading' = TRUE
       /\ hError' = None
       /\ pending' = pending \cup Requests(ds, de, pg, n)
       /\ issued' = issued + n
  ELSE UNCHANGED <<hLoading, hError, pending, issued>>

\* onMounted: setDefaultRange(), then fetchPage().  The assignment to the two
\* date refs triggers the date watcher, which runs after the hook: page = 0
\* (no change) and fetchPage() a second time.
HistoryMounted ==
  /\ hPc = "created"
  /\ issued + 2 <= MaxRequests
  /\ dateStart' = Some(DefaultStart)
  /\ dateEnd' = Some(DefaultEnd)
  /\ page' = 0
  /\ fetchPage(Some(DefaultStart), Some(DefaultEnd), 0, 2)
  /\ hPc' = "mounted"
  /\ hEvent' = "mounted"
  /\ UNCHANGED <<result, deletingId, deleting, awaited>>

\* fetchPage is called once by the handler; when the handler changed page,
\* the page watcher calls it once more.
CallsAfterPageReset == IF page # 0 THEN 2 ELSE 1

\* v-model on #date-start / #date-end, then watch([dateStart, dateEnd]):
\* page = 0, fetchPage(); then watch(page) if page changed.
DateInput ==
  /\ hPc = "mounted"
  /\ issued + CallsAfterPageReset <= MaxRequests
  /\ \E field \in {"dateStart", "dateEnd"}, d \in DatesTyped :
       /\ IF field = "dateStart"
          THEN d # dateStart /\ dateStart' = d /\ dateEnd' = dateEnd
          ELSE d # dateEnd /\ dateEnd' = d /\ dateStart' = dateStart
       /\ page' = 0
       /\ fetchPage(dateStart', dateEnd', 0, CallsAfterPageReset)
  /\ hEvent' = "dateInput"
  /\ UNCHANGED <<result, deletingId, deleting, awaited, hPc>>

\* click on the filter button (:disabled="!canFetch || loading"): applyFilter
applyFilter ==
  /\ hPc = "mounted"
  /\ canFetch(dateStart, dateEnd) /\ ~hLoading
  /\ issued + CallsAfterPageReset <= MaxRequests
  /\ page' = 0
  /\ fetchPage(dateStart, dateEnd, 0, CallsAfterPageReset)
  /\ hEvent' = "applyFilter"
  /\ UNCHANGED <<dateStart, dateEnd, result, deletingId, deleting, awaited, hPc>>

\* The list section is rendered: v-if="error" is false and result is set.
ListShown == hPc = "mounted" /\ IsNull(hError) /\ ~IsNull(result)

\* click on a pagination button: goToPage(page - 1) or goToPage(page + 1),
\* then watch(page): fetchPage().
goToPage ==
  /\ ListShown
  /\ Val(result).totalPages > 1
  /\ ~hLoading
  /\ issued + 1 <= MaxRequests
  /\ \E p \in {page - 1, page + 1} :
       /\ IF p = page - 1 THEN page > 0 ELSE page < Val(result).totalPages - 1
       /\ IF p >= 0 /\ p < Val(result).totalPages
          THEN /\ page' = p
               /\ fetchPage(dateStart, dateEnd, p, 1)
          ELSE UNCHANGED <<page, hLoading, hError, pending, issued>>
  /\ hEvent' = "goToPage"
  /\ UNCHANGED <<dateStart, dateEnd, result, deletingId, deleting, awaited, hPc>>

\* removeEntry returns to its finally block when the fetchPage call it
\* awaits has completed: deletingId = null.
AfterAwaitedFetch(r) ==
  /\ awaited' = {a \in awaited : a.seq # r.seq}
  /\ deletingId' = IF \E a \in awaited : a.seq = r.seq THEN None ELSE deletingId

\* Variant: a response is stored only when it answers the request issued
\* last.
FetchResolvedLatestOnly ==
  /\ \E r \in pending, res \in PageResponses :
       /\ result' = IF r.seq = issued
                    THEN Some([request |-> r, totalPages |-> res.totalPages,
                               content |-> res.content])
                    ELSE result
       /\ hLoading' = FALSE
       /\ pending' = pending \ {r}
       /\ AfterAwaitedFetch(r)
  /\ hEvent' = "fetchResolved"
  /\ UNCHANGED <<dateStart, dateEnd, page, hError, deleting, issued, hPc>>

\* fetchPage after its await: a listEntriesPaged request resolves.
FetchResolved ==
  /\ \E r \in pending, res \in PageResponses :
       /\ result' = Some([request |-> r, totalPages |-> res.totalPages,
                          content |-> res.content])
       /\ hLoading' = FALSE
       /\ pending' = pending \ {r}
       /\ AfterAwaitedFetch(r)
  /\ hEvent' = "fetchResolved"
  /\ UNCHANGED <<dateStart, dateEnd, page, hError, deleting, issued, hPc>>

\* fetchPage after its await: a listEntriesPaged request rejects.
FetchRejected ==
  /\ \E r \in pending, e \in Failures :
       /\ hError' = Some(ErrorMessage(e, "Erro ao carregar entradas"))
       /\ result' = None
       /\ hLoading' = FALSE
       /\ pending' = pending \ {r}
       /\ AfterAwaitedFetch(r)
  /\ hEvent' = "fetchRejected"
  /\ UNCHANGED <<dateStart, dateEnd, page, deleting, issued, hPc>>

\* Variant: no early return while a delete is under way.
removeEntryUnguarded(entryId) ==
  /\ deletingId' = Some(entryId)
  /\ hError' = None
  /\ deleting' = deleting \cup {entryId}

\* removeEntry up to its await
removeEntry(entryId) ==
  IF ~IsNull(deletingId)
  THEN UNCHANGED <<deletingId, hError, deleting>>
  ELSE /\ deletingId' = Some(entryId)
       /\ hError' = None
       /\ deleting' = deleting \cup {entryId}

\* click on the remove button of a listed entry
\* (:disabled="deletingId === entry.id")
RemoveClick ==
  /\ ListShown
  /\ Val(result).totalPages # 0
  /\ \E entryId \in Val(result).content :
       /\ deletingId # Some(entryId)
       /\ removeEntry(entryId)
  /\ hEvent' = "removeEntry"
  /\ UNCHANGED <<dateStart, dateEnd, page, result, hLoading, pending, awaited,
                 issued, hPc>>

\* removeEntry after its first await: deleteEntry resolves, fetchPage() is
\* called and awaited (it returns at once when canFetch is false).
DeleteResolved ==
  /\ issued + 1 <= MaxRequests
  /\ \E entryId \in deleting :
       /\ deleting' = deleting \ {entryId}
       /\ fetchPage(dateStart, dateEnd, page, 1)
       /\ IF canFetch(dateStart, dateEnd)
          THEN /\ awaited' = awaited \cup {[seq |-> issued + 1, id |-> entryId]}
               /\ deletingId' = deletingId
          ELSE /\ awaited' = awaited
               /\ deletingId' = None
  /\ hEvent' = "deleteResolved"
  /\ UNCHANGED <<dateStart, dateEnd, page, result, hPc>>

\* What a rejected DELETE throws: as any request, or the axios error for the
\* 404 answered when the entry no longer exists.
DeleteFailures ==
  Failures \cup {[isError |-> TRUE, message |-> "Request failed with status code 404"]}

\* Variant: the page is fetched again after a failed delete.
DeleteRejectedRefetch ==
  /\ issued + 1 <= MaxRequests
  /\ \E entryId \in deleting, e \in DeleteFailures :
       /\ deleting' = deleting \ {entryId}
       /\ pending' = pending \cup Requests(dateStart, dateEnd, page, 1)
       /\ issued' = issued + 1
       /\ hLoading' = TRUE
       /\ hError' = Some(ErrorMessage(e, "Erro ao remover entrada"))
       /\ deletingId' = None
  /\ hEvent' = "deleteRejected"
  /\ UNCHANGED <<dateStart, dateEnd, page, result, awaited, hPc>>

\* removeEntry after its first await: deleteEntry rejects.
DeleteRejected ==
  /\ \E entryId \in deleting, e \in DeleteFailures :
       /\ deleting' = deleting \ {entryId}
       /\ hError' = Some(ErrorMessage(e, "Erro ao remover entrada"))
       /\ deletingId' = None
  /\ hEvent' = "deleteRejected"
  /\ UNCHANGED <<dateStart, dateEnd, page, result, hLoading, pending, awaited,
                 issued, hPc>>

----------------------------------------------------------------------------
(* HourEntryModal.vue, and the DashboardView handlers around it             *)
(*                                                                          *)
(* The modal is part of the dashboard's v-else branch: it exists once a     *)
(* projection is displayed.  Its hours are hundredths of an hour.  A        *)
(* JavaScript NaN is the value NaN below; '' in a number field is None.     *)

\* (a pair, so that it can be told from None and from every Some(v))
NaN == <<"Na", "N">>
IsNumber(x) == Len(x) = 1

\* x > 0 and x <= 0 on a number, '' or NaN ('' converts to 0, NaN compares
\* false)
GreaterThanZero(x) == IsNumber(x) /\ Val(x) > 0
LeZero(x) == IsNull(x) \/ (IsNumber(x) /\ Val(x) <= 0)

\* Variant: a negative difference is not taken to the next day.
hoursFromRangeSameDay(from, to) ==
  IF IsNull(from) \/ IsNull(to) THEN NaN
  ELSE Some(MathRound(((to[1] * 60 + to[2]) - (from[1] * 60 + from[2])) * 100
                        + 24 * 60 * 100, 60) - 24 * 100)

\* hoursFromRange.  A cleared time input holds '', whose split(':') has one
\* element: the minutes are undefined and the result is NaN.
hoursFromRange(from, to) ==
  IF IsNull(from) \/ IsNull(to) THEN NaN
  ELSE LET minutes == (to[1] * 60 + to[2]) - (from[1] * 60 + from[2])
           wrapped == IF minutes < 0 THEN minutes + 24 * 60 ELSE minutes
       IN Some(MathRound(wrapped * 100, 60))

computedHours ==
  IF inputMode = "direct" THEN directHours ELSE hoursFromRange(timeFrom, timeTo)

\* Variant: only the date is required.
canSubmitEntryDateOnly == ~IsNull(date)

canSubmitEntry == ~IsNull(date) /\ GreaterThanZero(computedHours)

\* template: :disabled="!canSubmitEntry || submitting"
SubmitDisabled == ~canSubmitEntry \/ submitting

\* todayIso()
Today == 2

\* The days shown as day balls: day.date and day.past.
DaysShown ==
  { [date |-> Some(1), past |-> TRUE],
    [date |-> Some(2), past |-> FALSE],
    [date |-> Some(3), past |-> FALSE] }

ModalDatesTyped == {None, Some(3)}
TimesTyped == {None, <<9, 0>>}
DirectHoursTyped == {None, Some(-100), Some(0), Some(50)}
Descriptions == {"", " x"}

\* description.trim()
Trim(text) == IF text = " x" THEN "x" ELSE text

\* What GET /v1/entries answers for a day: the ids of its entries.
EntriesResponses == {{}, {"a"}}

\* The projections the endpoint answers with before and after an entry is
\* created.
SnapshotWeeks ==
  { [weekStart |-> 0, weekEnd |-> 1, totalWorked |-> Some(w),
     totalAdjusted |-> None, hoursAvailable |-> Some(94),
     totalSegmentHours |-> Some(100)] : w \in {33, 50} }

SnapshotResponses ==
  [status : {200}, kind : {"json"}, data : SnapshotWeeks]
    \cup [status : {204}, kind : {"empty"}]

FirstSnapshotResponses ==
  {res \in SnapshotResponses :
     res.kind = "json" /\ res.data.totalWorked = Some(33)}

\* times typed into the two time inputs
TimeGrid ==
  {None} \cup {<<h, m>> : h \in {0, 9, 18, 23}, m \in {0, 1, 30, 59}}

MaxListInFlight == 2
MaxRefetch == 1

InitModal ==
  /\ entryModalOpen = FALSE
  /\ entryModalInitialDate = None
  /\ date = None
  /\ inputMode = "range"
  /\ timeFrom = <<9, 0>>
  /\ timeTo = <<18, 0>>
  /\ directHours = Some(800)
  /\ description = ""
  /\ entriesForDay = {}
  /\ loadingEntries = FALSE
  /\ submitting = FALSE
  /\ mError = None
  /\ createRequest = None
  /\ listPending = <<>>
  /\ refetching = 0
  /\ emitted = <<>>
  /\ mEvent = "setup"

\* template: the v-else branch of the dashboard, which holds the header
\* button, the day balls and the modal
DashboardShown ==
  mountPc = "done" /\ ~loading /\ IsNull(error) /\ ~IsNull(projection)

\* loadEntriesForDay up to its await, called n times in a row while date
\* holds d.
loadEntriesForDay(d, n) ==
  IF n = 0
  THEN UNCHANGED <<entriesForDay, loadingEntries, listPending>>
  ELSE IF IsNull(d)
  THEN /\ entriesForDay' = {}
       /\ UNCHANGED <<loadingEntries, listPending>>
  ELSE /\ loadingEntries' = TRUE
       /\ listPending' = listPending \o [i \in 1 .. n |-> Val(d)]
       /\ UNCHANGED entriesForDay

\* Variant: the form keeps what the user left in it.
onShowKeepForm(initialDate) ==
  LET d == IF IsNull(date) THEN Some(Today) ELSE date
  IN /\ date' = d
     /\ mError' = None
     /\ loadEntriesForDay(d, IF d # date THEN 2 ELSE 1)
     /\ UNCHANGED <<timeFrom, timeTo, directHours, description>>

\* watch(() => props.show) with show true: the form is reset and
\* loadEntriesForDay() called; the assignment to date, when it changes date,
\* triggers watch(date), which calls loadEntriesForDay() once more.
onShow(initialDate) ==
  LET d == IF IsNull(initialDate) THEN Some(Today) ELSE initialDate
  IN /\ date' = d
     /\ timeFrom' = <<9, 0>>
     /\ timeTo' = <<18, 0>>
     /\ directHours' = Some(800)
     /\ description' = ""
     /\ mError' = None
     /\ loadEntriesForDay(d, IF d # date THEN 2 ELSE 1)

\* DashboardView: openEntryModal(initialDate), and the modal's show watcher
\* when show changes
openEntryModal(initialDate) ==
  /\ entryModalInitialDate' = initialDate
  /\ entryModalOpen' = TRUE
  /\ IF ~entryModalOpen
     THEN onShow(initialDate)
     ELSE UNCHANGED <<date, timeFrom, timeTo, directHours, description, mError,
                      entriesForDay, loadingEntries, listPending>>

\* click on the header button "Registrar horas" (the open modal's backdrop
\* covers it): openEntryModal()
HeaderClick ==
  /\ DashboardShown
  /\ ~entryModalOpen
  /\ Len(listPending) + 2 <= MaxListInFlight
  /\ openEntryModal(None)
  /\ emitted' = <<>>
  /\ mEvent' = "headerClick"
  /\ UNCHANGED <<inputMode, submitting, createRequest, refetching>>

\* @click="!day.past && openEntryModal(day.date)"
DayClicked(day) ==
  IF ~day.past
  THEN openEntryModal(day.date)
  ELSE UNCHANGED <<entryModalInitialDate, entryModalOpen, date, timeFrom, timeTo,
                   directHours, description, mError, entriesForDay,
                   loadingEntries, listPending>>

\* click on a day ball (the open modal's backdrop covers them)
DayClick ==
  /\ DashboardShown
  /\ ~entryModalOpen
  /\ Len(listPending) + 2 <= MaxListInFlight
  /\ \E day \in DaysShown : DayClicked(day)
  /\ emitted' = <<>>
  /\ mEvent' = "dayClick"
  /\ UNCHANGED <<inputMode, submitting, createRequest, refetching>>

\* click on "Cancelar" or on the backdrop: close() emits 'close', and the
\* dashboard's @close listener sets entryModalOpen = false
CloseClick ==
  /\ entryModalOpen
  /\ entryModalOpen' = FALSE
  /\ emitted' = <<"close">>
  /\ mEvent' = "close"
  /\ UNCHANGED <<entryModalInitialDate, date, inputMode, timeFrom, timeTo,
                 directHours, description, entriesForDay, loadingEntries,
                 submitting, mError, createRequest, listPending, refetching>>

\* v-model on #entry-date, then watch(date):
\* if (props.show && d) loadEntriesForDay()
DateEdit ==
  /\ entryModalOpen
  /\ Len(listPending) + 1 <= MaxListInFlight
  /\ \E d \in ModalDatesTyped :
       /\ d # date
       /\ date' = d
       /\ IF ~IsNull(d)
          THEN mError' = None /\ loadEntriesForDay(d, 1)
          ELSE UNCHANGED <<mError, entriesForDay, loadingEntries, listPending>>
  /\ emitted' = <<>>
  /\ mEvent' = "dateEdit"
  /\ UNCHANGED <<entryModalOpen, entryModalInitialDate, inputMode, timeFrom,
                 timeTo, directHours, description, submitting, createRequest,
                 refetching>>

\* v-model on the two radio buttons
ModeEdit ==
  /\ entryModalOpen
  /\ inputMode' = IF inputMode = "range" THEN "direct" ELSE "range"
  /\ emitted' = <<>>
  /\ mEvent' = "modeEdit"
  /\ UNCHANGED <<entryModalOpen, entryModalInitialDate, date, timeFrom, timeTo,
                 directHours, description, entriesForDay, loadingEntries,
                 submitting, mError, createRequest, listPending, refetching>>

\* v-model on #time-from / #time-to (rendered in range mode), the typed time
\* drawn from a given set
TimeEditFrom(times) ==
  /\ entryModalOpen
  /\ inputMode = "range"
  /\ \E field \in {"timeFrom", "timeTo"}, t \in times :
       IF field = "timeFrom"
       THEN t # timeFrom /\ timeFrom' = t /\ timeTo' = timeTo
       ELSE t # timeTo /\ timeTo' = t /\ timeFrom' = timeFrom
  /\ emitted' = <<>>
  /\ mEvent' = "timeEdit"
  /\ UNCHANGED <<entryModalOpen, entryModalInitialDate, date, inputMode,
                 directHours, description, entriesForDay, loadingEntries,
                 submitting, mError, createRequest, listPending, refetching>>

TimeEdit == TimeEditFrom(TimesTyped)

\* v-model.number on #direct-hours (rendered in direct mode)
DirectHoursEdit ==
  /\ entryModalOpen
  /\ inputMode = "direct"
  /\ \E h \in DirectHoursTyped : h # directHours /\ directHours' = h
  /\ emitted' = <<>>
  /\ mEvent' = "directHoursEdit"
  /\ UNCHANGED <<entryModalOpen, entryModalInitialDate, date, inputMode, timeFrom,
                 timeTo, description, entriesForDay, loadingEntries, submitting,
                 mError, createRequest, listPending, refetching>>

\* v-model on #description
DescriptionEdit ==
  /\ entryModalOpen
  /\ \E text \in Descriptions : text # description /\ description' = text
  /\ emitted' = <<>>
  /\ mEvent' = "descriptionEdit"
  /\ UNCHANGED <<entryModalOpen, entryModalInitialDate, date, inputMode, timeFrom,
                 timeTo, directHours, entriesForDay, loadingEntries, submitting,
                 mError, createRequest, listPending, refetching>>

\* submit(), up to its await
submit ==
  IF IsNull(date) \/ LeZero(computedHours)
  THEN UNCHANGED <<submitting, mError, createRequest>>
  ELSE /\ submitting' = TRUE
       /\ mError' = None
       /\ createRequest' =
            Some([entryDate |-> date, hours |-> computedHours,
                  description |-> IF Trim(description) = "" THEN None
                                  ELSE Some(Trim(description))])

\* click on the save button of the modal
SubmitClick ==
  /\ entryModalOpen
  /\ ~SubmitDisabled
  /\ submit
  /\ emitted' = <<>>
  /\ mEvent' = "submit"
  /\ UNCHANGED <<entryModalOpen, entryModalInitialDate, date, inputMode, timeFrom,
                 timeTo, directHours, description, entriesForDay, loadingEntries,
                 listPending, refetching>>

\* Variant: 'close' is emitted before 'saved'.
CreateResolvedCloseFirst ==
  /\ ~IsNull(createRequest)
  /\ refetching < MaxRefetch
  /\ emitted' = <<"close", "saved">>
  /\ refetching' = refetching + 1
  /\ entryModalOpen' = FALSE
  /\ submitting' = FALSE
  /\ createRequest' = None
  /\ mEvent' = "createResolved"
  /\ UNCHANGED <<entryModalInitialDate, date, inputMode, timeFrom, timeTo,
                 directHours, description, entriesForDay, loadingEntries, mError,
                 listPending>>

\* submit(): createHourEntry resolves; emit('saved') runs the dashboard's
\* onEntryModalSaved up to its await (the projection is fetched again),
\* emit('close') runs entryModalOpen = false; finally submitting = false.
CreateResolved ==
  /\ ~IsNull(createRequest)
  /\ refetching < MaxRefetch
  /\ emitted' = <<"saved", "close">>
  /\ refetching' = refetching + 1
  /\ entryModalOpen' = FALSE
  /\ submitting' = FALSE
  /\ createRequest' = None
  /\ mEvent' = "createResolved"
  /\ UNCHANGED <<entryModalInitialDate, date, inputMode, timeFrom, timeTo,
                 directHours, description, entriesForDay, loadingEntries, mError,
                 listPending>>

\* Variant: submit() without its finally block.
CreateRejectedNoFinally ==
  /\ ~IsNull(createRequest)
  /\ \E e \in Failures : mError' = Some(ErrorMessage(e, "Erro ao salvar"))
  /\ submitting' = submitting
  /\ createRequest' = None
  /\ emitted' = <<>>
  /\ mEvent' = "createRejected"
  /\ UNCHANGED <<entryModalOpen, entryModalInitialDate, date, inputMode, timeFrom,
                 timeTo, directHours, description, entriesForDay, loadingEntries,
                 listPending, refetching>>

\* submit(): createHourEntry rejects.
CreateRejected ==
  /\ ~IsNull(createRequest)
  /\ \E e \in Failures : mError' = Some(ErrorMessage(e, "Erro ao salvar"))
  /\ submitting' = FALSE
  /\ createRequest' = None
  /\ emitted' = <<>>
  /\ mEvent' = "createRejected"
  /\ UNCHANGED <<entryModalOpen, entryModalInitialDate, date, inputMode, timeFrom,
                 timeTo, directHours, description, entriesForDay, loadingEntries,
                 listPending, refetching>>

\* a sequence without its i-th element
Without(seq, i) == SubSeq(seq, 1, i - 1) \o SubSeq(seq, i + 1, Len(seq))

\* loadEntriesForDay after its await: listEntriesByDateRange resolves.
ListResolved ==
  /\ \E i \in 1 .. Len(listPending), entries \in EntriesResponses :
       /\ entriesForDay' = entries
       /\ listPending' = Without(listPending, i)
  /\ loadingEntries' = FALSE
  /\ emitted' = <<>>
  /\ mEvent' = "listResolved"
  /\ UNCHANGED <<entryModalOpen, entryModalInitialDate, date, inputMode, timeFrom,
                 timeTo, directHours, description, submitting, mError,
                 createRequest, refetching>>

\* loadEntriesForDay after its await: listEntriesByDateRange rejects.
ListRejected ==
  /\ \E i \in 1 .. Len(listPending), e \in Failures :
       /\ mError' = Some(ErrorMessage(e, "Erro ao carregar entradas"))
       /\ listPending' = Without(listPending, i)
  /\ entriesForDay' = {}
  /\ loadingEntries' = FALSE
  /\ emitted' = <<>>
  /\ mEvent' = "listRejected"
  /\ UNCHANGED <<entryModalOpen, entryModalInitialDate, date, inputMode, timeFrom,
                 timeTo, directHours, description, submitting, createRequest,
                 refetching>>

\* Variant: an empty answer clears the snapshot.
RefetchResolvedAlwaysStored ==
  /\ refetching > 0
  /\ \E res \in SnapshotResponses :
       /\ projection' = fetchProjection(res)
       /\ bar' = Render(loading, error, fetchProjection(res))
  /\ refetching' = refetching - 1
  /\ mEvent' = "refetchResolved"
  /\ emitted' = <<>>
  /\ UNCHANGED <<loading, error, mountPc, tzShift, received>>
  /\ UNCHANGED <<entryModalOpen, entryModalInitialDate, date, inputMode, timeFrom,
                 timeTo, directHours, description, entriesForDay, loadingEntries,
                 submitting, mError, createRequest, listPending>>

\* onEntryModalSaved after its await: fetchProjection() resolves;
\* if (updated) projection.value = updated
RefetchResolved ==
  /\ refetching > 0
  /\ \E res \in SnapshotResponses :
       LET updated == fetchProjection(res)
       IN IF ~IsNull(updated)
          THEN /\ projection' = updated
               /\ bar' = Render(loading, error, updated)
          ELSE UNCHANGED <<projection, bar>>
  /\ refetching' = refetching - 1
  /\ mEvent' = "refetchResolved"
  /\ emitted' = <<>>
  /\ UNCHANGED <<loading, error, mountPc, tzShift, received>>
  /\ UNCHANGED <<entryModalOpen, entryModalInitialDate, date, inputMode, timeFrom,
                 timeTo, directHours, description, entriesForDay, loadingEntries,
                 submitting, mError, createRequest, listPending>>

\* onEntryModalSaved after its await: fetchProjection() rejects; the catch
\* block is empty.
RefetchRejected ==
  /\ refetching > 0
  /\ refetching' = refetching - 1
  /\ mEvent' = "refetchRejected"
  /\ emitted' = <<>>
  /\ UNCHANGED dashVars
  /\ UNCHANGED <<entryModalOpen, entryModalInitialDate, date, inputMode, timeFrom,
                 timeTo, directHours, description, entriesForDay, loadingEntries,
                 submitting, mError, createRequest, listPending>>

----------------------------------------------------------------------------
(* Specifications *)

Init == InitDashboard /\ InitSettings /\ InitHistory /\ InitModal

\* The dashboard is mounted and renders the week bars of what it fetched.
NextBars ==
  \/ MountFetchResolved /\ UNCHANGED <<settingsVars, historyVars, modalVars>>
  \/ MountFetchRejected /\ UNCHANGED <<settingsVars, historyVars, modalVars>>

SpecBars == Init /\ [][NextBars]_vars

\* The settings view is mounted (the dashboard is not).
InitSettingsView ==
  InitDashboard /\ tzShift = 0 /\ InitSettings /\ InitHistory /\ InitModal

NextSettings ==
  \/ LoadConfigResolved /\ UNCHANGED <<dashVars, historyVars, modalVars>>
  \/ LoadConfigRejected /\ UNCHANGED <<dashVars, historyVars, modalVars>>
  \/ HoursInput /\ UNCHANGED <<dashVars, historyVars, modalVars>>
  \/ PercentInput /\ UNCHANGED <<dashVars, historyVars, modalVars>>
  \/ ClosureInput /\ UNCHANGED <<dashVars, historyVars, modalVars>>
  \/ SaveClick /\ UNCHANGED <<dashVars, historyVars, modalVars>>
  \/ SaveResolved /\ UNCHANGED <<dashVars, historyVars, modalVars>>
  \/ SaveRejected /\ UNCHANGED <<dashVars, historyVars, modalVars>>

SpecSettings == InitSettingsView /\ [][NextSettings]_vars

\* The settings view with the two fields edited over the finer grids.
NextReconciler ==
  \/ LoadConfigResolved /\ UNCHANGED <<dashVars, historyVars, modalVars>>
  \/ LoadConfigRejected /\ UNCHANGED <<dashVars, historyVars, modalVars>>
  \/ HoursInputFrom(HoursGrid) /\ UNCHANGED <<dashVars, historyVars, modalVars>>
  \/ PercentInputFrom(PercentGrid) /\ UNCHANGED <<dashVars, historyVars, modalVars>>

SpecReconciler == InitSettingsView /\ [][NextReconciler]_vars

\* The history view, the other views left as constructed.
InitHistoryView ==
  InitDashboard /\ tzShift = 0 /\ InitSettings /\ InitHistory /\ InitModal

NextHistory ==
  \/ HistoryMounted /\ UNCHANGED <<dashVars, settingsVars, modalVars>>
  \/ DateInput /\ UNCHANGED <<dashVars, settingsVars, modalVars>>
  \/ applyFilter /\ UNCHANGED <<dashVars, settingsVars, modalVars>>
  \/ goToPage /\ UNCHANGED <<dashVars, settingsVars, modalVars>>
  \/ FetchResolved /\ UNCHANGED <<dashVars, settingsVars, modalVars>>
  \/ FetchRejected /\ UNCHANGED <<dashVars, settingsVars, modalVars>>
  \/ RemoveClick /\ UNCHANGED <<dashVars, settingsVars, modalVars>>
  \/ DeleteResolved /\ UNCHANGED <<dashVars, settingsVars, modalVars>>
  \/ DeleteRejected /\ UNCHANGED <<dashVars, settingsVars, modalVars>>

SpecHistory == InitHistoryView /\ [][NextHistory]_vars

----------------------------------------------------------------------------
(* Properties of the week bars (DashboardView.vue)                          *)

\* The week the dashboard holds, and the quantities the properties speak of,
\* read from the week's fields.
HasWeek == ~IsNull(projection)
TheWeek == Val(projection)
Rendered == ~IsNull(bar)
TheBar == Val(bar)
WorkedOf(w) ==
  (IF IsNull(w.totalWorked) THEN 0 ELSE Val(w.totalWorked))
    + (IF IsNull(w.totalAdjusted) THEN 0 ELSE Val(w.totalAdjusted))
HasAvailable(w) == ~IsNull(w.hoursAvailable)
AvailableOf(w) == Val(w.hoursAvailable)
InPercentRange(x) == 0 <= x.n /\ x.n <= 100 * x.d
\* min(100, 100 * h / total) for total > 0
ExpectedPercent(h, total) ==
  IF 100 * h >= 100 * total THEN Hundred ELSE Frac(100 * h, total)

\* C1: for every week segment, also one whose totalWorked + totalAdjusted is
\* negative, weekBarFillPercent is a number in [0,100].
C1_FillPercentInRange ==
  Rendered => InPercentRange(TheBar.fill)

\* C2: for worked >= 0 and available > 0 the fill class is done iff
\* worked >= available, and otherwise low for a ratio below 0.33, mid for a
\* ratio in [0.33, 0.66) and high for a ratio of 0.66 or more.
C2_FillClassBuckets ==
  (Rendered /\ HasAvailable(TheWeek) /\ AvailableOf(TheWeek) > 0
     /\ WorkedOf(TheWeek) >= 0)
  => LET worked == WorkedOf(TheWeek)
         available == AvailableOf(TheWeek)
         class == TheBar.fillClass
     IN /\ class \in {"week-bar-fill--done", "week-bar-fill--low",
                      "week-bar-fill--mid", "week-bar-fill--high"}
        /\ class = "week-bar-fill--done" <=> worked >= available
        /\ worked < available =>
             /\ class = "week-bar-fill--low" <=> 100 * worked < 33 * available
             /\ class = "week-bar-fill--mid" <=>
                  (33 * available <= 100 * worked /\ 100 * worked < 66 * available)
             /\ class = "week-bar-fill--high" <=> 66 * available <= 100 * worked

\* A rendered week whose ratio is exactly 0.33: it is mid.
C2_Witness ==
  /\ Rendered /\ HasAvailable(TheWeek) /\ AvailableOf(TheWeek) = 100
  /\ WorkedOf(TheWeek) = 33
  /\ TheBar.fillClass = "week-bar-fill--mid"

\* C3: the marker is shown iff 0 < hoursAvailable < barTotalHours; it is
\* hidden when hoursAvailable is missing, zero, negative, or at or past the
\* bar's total.
C3_ShowMarkerIff ==
  Rendered =>
    ((~IsNull(TheBar.marker)) <=>
       (HasAvailable(TheWeek) /\ 0 < AvailableOf(TheWeek)
          /\ AvailableOf(TheWeek) < TheBar.total))

\* A rendered week whose availability equals the bar's total: marker hidden.
C3_Witness ==
  /\ Rendered /\ HasAvailable(TheWeek) /\ AvailableOf(TheWeek) = 168
  /\ TheBar.total = 168
  /\ IsNull(TheBar.marker)

\* C4: weekMarkerAvailablePercent is min(100, 100 x hoursAvailable / total)
\* for positive hoursAvailable and positive total, is 0 when hoursAvailable is
\* undefined, zero or negative, and so always lies in [0,100].
C4_MarkerPercent ==
  HasWeek =>
    LET m == weekMarkerAvailablePercent(TheWeek)
        total == weekBarTotalHours(TheWeek)
    IN /\ InPercentRange(m)
       /\ (~HasAvailable(TheWeek) \/ AvailableOf(TheWeek) <= 0) => FracEq(m, Zero)
       /\ (HasAvailable(TheWeek) /\ AvailableOf(TheWeek) > 0 /\ total > 0)
            => FracEq(m, ExpectedPercent(AvailableOf(TheWeek), total))

\* C5: when the bar's total is <= 0 (totalSegmentHours absent or non-positive
\* and weekEnd at least a day before weekStart) the fill percent and the
\* marker percent are 0 and the marker is hidden; no fraction has a
\* non-positive denominator.
SegmentHoursUnusable(w) ==
  IsNull(w.totalSegmentHours) \/ Val(w.totalSegmentHours) <= 0
C5_NonPositiveTotal ==
  HasWeek =>
    /\ (SegmentHoursUnusable(TheWeek) /\ TheWeek.weekEnd < TheWeek.weekStart)
         => weekBarTotalHours(TheWeek) <= 0
    /\ weekBarTotalHours(TheWeek) <= 0 =>
         /\ weekBarFillPercent(TheWeek) = Zero
         /\ weekMarkerAvailablePercent(TheWeek) = Zero
         /\ ~weekShowAvailableMarker(TheWeek)
    /\ weekBarFillPercent(TheWeek).d > 0
    /\ weekMarkerAvailablePercent(TheWeek).d > 0

\* A rendered week ending before it starts, with hours worked and available.
C5_Witness ==
  /\ Rendered /\ SegmentHoursUnusable(TheWeek)
  /\ TheWeek.weekEnd < TheWeek.weekStart
  /\ WorkedOf(TheWeek) > 0
  /\ HasAvailable(TheWeek) /\ AvailableOf(TheWeek) > 0
  /\ TheBar.total <= 0 /\ TheBar.fill = Zero /\ IsNull(TheBar.marker)

\* C6: with hoursAvailable <= 0 or missing, whatever was worked, the fill
\* class is neutral and the marker is hidden.
C6_NoAvailability ==
  (Rendered /\ (~HasAvailable(TheWeek) \/ AvailableOf(TheWeek) <= 0))
  => /\ TheBar.fillClass = "week-bar-fill--neutral"
     /\ IsNull(TheBar.marker)

\* A rendered week with hoursAvailable = 0 and 100 hours worked.
C6_Witness ==
  /\ Rendered /\ HasAvailable(TheWeek) /\ AvailableOf(TheWeek) = 0
  /\ WorkedOf(TheWeek) = 100
  /\ TheBar.fillClass = "week-bar-fill--neutral"

\* C7: for a positive bar total the fill percent is
\* min(100, 100 x (totalWorked + totalAdjusted) / total), a missing field
\* counting as 0; totalSegmentHours=168, worked 50, adjusted 10 give 35.71.
IsExampleWeek(w) ==
  /\ w.totalSegmentHours = Some(168)
  /\ w.totalWorked = Some(50)
  /\ w.totalAdjusted = Some(10)
C7_FillPercentFormula ==
  (Rendered /\ TheBar.total > 0)
  => /\ FracEq(TheBar.fill, ExpectedPercent(WorkedOf(TheWeek), TheBar.total))
     /\ IsExampleWeek(TheWeek) =>
          /\ 3571 * TheBar.fill.d <= 100 * TheBar.fill.n
          /\ 100 * TheBar.fill.n < 3572 * TheBar.fill.d

\* The example week, rendered.
C7_Witness == Rendered /\ IsExampleWeek(TheWeek) /\ TheBar.total = 168

\* C8: the bar total is totalSegmentHours when that is present and strictly
\* positive, and otherwise 24 x ((weekEnd - weekStart in days) + 1).
C8_BarTotalHours ==
  HasWeek =>
    weekBarTotalHours(TheWeek) =
      IF ~IsNull(TheWeek.totalSegmentHours) /\ Val(TheWeek.totalSegmentHours) > 0
      THEN Val(TheWeek.totalSegmentHours)
      ELSE 24 * ((TheWeek.weekEnd - TheWeek.weekStart) + 1)

\* A week with totalSegmentHours = 0 spanning three days across a DST change.
C8_Witness ==
  /\ Rendered /\ TheWeek.totalSegmentHours = Some(0)
  /\ TheWeek.weekStart = 0 /\ TheWeek.weekEnd = 2 /\ tzShift = 1
  /\ TheBar.total = 72

----------------------------------------------------------------------------
(* Properties of the settings form (SettingsView.vue)                       *)

\* The percent field equals percentFromHours(hours field) within 0.01
\* (10 thousandths of a percent).
PercentFieldSynced ==
  /\ ~IsNull(percentInput)
  /\ Val(percentInput) - 10 * percentFromHours(weeklyHoursInput) <= 10
  /\ 10 * percentFromHours(weeklyHoursInput) - Val(percentInput) <= 10

\* C9 as stated: after every edit event on the hours or the percent field
\* the percent field equals percentFromHours(hours field) within 0.01.
C9_SyncedAfterEveryEdit ==
  lastEvent \in {"hoursInput", "percentInput"} => PercentFieldSynced

\* C9, amended: after an edit of the hours field, and after an edit of the
\* percent field whose hoursFromPercent value is strictly positive, the
\* percent field equals percentFromHours(hours field) within 0.01.
C9_SyncedAfterEffectiveEdit ==
  (\/ lastEvent = "hoursInput"
   \/ lastEvent = "percentInput" /\ hoursFromPercent(percentInput) > 0)
  => PercentFieldSynced

\* The percent field was edited to 50.004: the hours field became 84.01.
C9_Witness ==
  /\ lastEvent = "percentInput"
  /\ percentInput = Some(50004)
  /\ weeklyHoursInput = Some(8401)
  /\ PercentFieldSynced

\* C10: an edit of the percent field overwrites the hours field with
\* hoursFromPercent(percent) only when that value is strictly positive; with
\* a percent field of 0, empty, negative or above 100 the hours field keeps
\* its value.
C10_PercentEditKeepsHours ==
  [][lastEvent' = "percentInput" =>
       /\ (\/ IsNull(percentInput')
           \/ Val(percentInput') <= 0
           \/ Val(percentInput') > 100 * 1000)
            => weeklyHoursInput' = weeklyHoursInput
       /\ hoursFromPercent(percentInput') > 0
            => weeklyHoursInput' = Some(hoursFromPercent(percentInput'))
       /\ hoursFromPercent(percentInput') <= 0
            => weeklyHoursInput' = weeklyHoursInput]_vars

\* The percent field was edited to 150 and the hours field still holds 40.
C10_Witness ==
  /\ lastEvent = "percentInput"
  /\ percentInput = Some(150000)
  /\ weeklyHoursInput = Some(4000)

\* C11: an edit of the hours field writes percentFromHours(hours), formatted
\* to two decimals, to the percent field and nothing else: the hours field
\* keeps what was typed and the reverse sync does not run, so an edit event
\* makes at most one programmatic write.
C11_HoursEditOneWay ==
  [][/\ lastEvent' = "hoursInput" =>
          /\ percentInput' = Some(10 * percentFromHours(weeklyHoursInput'))
          /\ weeklyHoursInput' \in HoursTyped
          /\ written' = {"percentInput"}
     /\ lastEvent' \in {"hoursInput", "percentInput"} => Cardinality(written') <= 1
    ]_vars

\* The hours field was edited to 0.01: the percent field shows 0.01 and the
\* hours field still holds 0.01 (the reverse sync would make it 0.02).
C11_Witness ==
  /\ lastEvent = "hoursInput"
  /\ weeklyHoursInput = Some(1)
  /\ percentInput = Some(10)
  /\ hoursFromPercent(percentInput) = 2
  /\ written = {"percentInput"}

\* C12 as stated: every programmatic write to the hours or the percent field
\* is the sync of a user edit of the other field; no operation (loadConfig
\* and save included) writes them from a third source.
C12_WritesOnlyFromEdits ==
  written # {} =>
    \/ lastEvent = "hoursInput" /\ written = {"percentInput"}
    \/ lastEvent = "percentInput" /\ written = {"weeklyHoursInput"}

\* C12, amended: a sync handler writes only the field the user did not edit;
\* the only other programmatic writes are loadConfig, which writes both
\* fields from the loaded expectedWeeklyHours h (hours = h,
\* percent = (h / 168 * 100).toFixed(2)), and a successful save, which
\* writes the percent field alone.
C12_ProgrammaticWrites ==
  /\ lastEvent = "hoursInput" => written = {"percentInput"}
  /\ lastEvent = "percentInput" => written \subseteq {"weeklyHoursInput"}
  /\ lastEvent = "loadResolved" =>
       \/ written = {}
       \/ /\ written = {"weeklyHoursInput", "percentInput"}
          /\ ~IsNull(weeklyHoursInput)
          /\ percentInput = Some(PercentOfHoursFixed(Val(weeklyHoursInput)))
  /\ lastEvent = "saveResolved" => written = {"percentInput"}
  /\ lastEvent \in {"mount", "loadRejected", "closureInput", "saveClick",
                    "saveRejected"} => written = {}

\* loadConfig has stored 37.5 hours and its 22.32 percent.
C12_Witness ==
  /\ lastEvent = "loadResolved"
  /\ written = {"weeklyHoursInput", "percentInput"}
  /\ weeklyHoursInput = Some(3750)
  /\ percentInput = Some(22320)

\* The dashboard with its entry modal.
InitModalView ==
  InitDashboard /\ tzShift = 0 /\ InitSettings /\ InitHistory /\ InitModal

\* The modal is opened, edited, closed and opened again.
NextModalOpen ==
  \/ MountFetchResolvedFrom(FirstSnapshotResponses) /\ UNCHANGED <<settingsVars, historyVars, modalVars>>
  \/ MountFetchRejected /\ UNCHANGED <<settingsVars, historyVars, modalVars>>
  \/ HeaderClick /\ UNCHANGED <<dashVars, settingsVars, historyVars>>
  \/ DayClick /\ UNCHANGED <<dashVars, settingsVars, historyVars>>
  \/ CloseClick /\ UNCHANGED <<dashVars, settingsVars, historyVars>>
  \/ DateEdit /\ UNCHANGED <<dashVars, settingsVars, historyVars>>
  \/ ModeEdit /\ UNCHANGED <<dashVars, settingsVars, historyVars>>
  \/ TimeEdit /\ UNCHANGED <<dashVars, settingsVars, historyVars>>
  \/ DirectHoursEdit /\ UNCHANGED <<dashVars, settingsVars, historyVars>>
  \/ DescriptionEdit /\ UNCHANGED <<dashVars, settingsVars, historyVars>>
  \/ ListResolved /\ UNCHANGED <<dashVars, settingsVars, historyVars>>
  \/ ListRejected /\ UNCHANGED <<dashVars, settingsVars, historyVars>>

SpecModalOpen == InitModalView /\ [][NextModalOpen]_vars

\* The entry form is filled in and submitted.
NextEntryForm ==
  \/ MountFetchResolvedFrom(FirstSnapshotResponses) /\ UNCHANGED <<settingsVars, historyVars, modalVars>>
  \/ MountFetchRejected /\ UNCHANGED <<settingsVars, historyVars, modalVars>>
  \/ HeaderClick /\ UNCHANGED <<dashVars, settingsVars, historyVars>>
  \/ DateEdit /\ UNCHANGED <<dashVars, settingsVars, historyVars>>
  \/ ModeEdit /\ UNCHANGED <<dashVars, settingsVars, historyVars>>
  \/ TimeEdit /\ UNCHANGED <<dashVars, settingsVars, historyVars>>
  \/ DirectHoursEdit /\ UNCHANGED <<dashVars, settingsVars, historyVars>>
  \/ SubmitClick /\ UNCHANGED <<dashVars, settingsVars, historyVars>>
  \/ CreateResolved /\ UNCHANGED <<dashVars, settingsVars, historyVars>>
  \/ CreateRejected /\ UNCHANGED <<dashVars, settingsVars, historyVars>>
  \/ ListResolved /\ UNCHANGED <<dashVars, settingsVars, historyVars>>
  \/ RefetchRejected /\ UNCHANGED <<settingsVars, historyVars>>

SpecEntryForm == InitModalView /\ [][NextEntryForm]_vars

\* The two time inputs are edited over a grid of times.
NextTimeRange ==
  \/ MountFetchResolvedFrom(FirstSnapshotResponses) /\ UNCHANGED <<settingsVars, historyVars, modalVars>>
  \/ MountFetchRejected /\ UNCHANGED <<settingsVars, historyVars, modalVars>>
  \/ HeaderClick /\ UNCHANGED <<dashVars, settingsVars, historyVars>>
  \/ ModeEdit /\ UNCHANGED <<dashVars, settingsVars, historyVars>>
  \/ TimeEditFrom(TimeGrid) /\ UNCHANGED <<dashVars, settingsVars, historyVars>>

SpecTimeRange == InitModalView /\ [][NextTimeRange]_vars

\* An entry is submitted and the dashboard reacts to the modal's events.
NextModalSaved ==
  \/ MountFetchResolvedFrom(SnapshotResponses) /\ UNCHANGED <<settingsVars, historyVars, modalVars>>
  \/ MountFetchRejected /\ UNCHANGED <<settingsVars, historyVars, modalVars>>
  \/ HeaderClick /\ UNCHANGED <<dashVars, settingsVars, historyVars>>
  \/ DayClick /\ UNCHANGED <<dashVars, settingsVars, historyVars>>
  \/ CloseClick /\ UNCHANGED <<dashVars, settingsVars, historyVars>>
  \/ DescriptionEdit /\ UNCHANGED <<dashVars, settingsVars, historyVars>>
  \/ SubmitClick /\ UNCHANGED <<dashVars, settingsVars, historyVars>>
  \/ CreateResolved /\ UNCHANGED <<dashVars, settingsVars, historyVars>>
  \/ CreateRejected /\ UNCHANGED <<dashVars, settingsVars, historyVars>>
  \/ ListResolved /\ UNCHANGED <<dashVars, settingsVars, historyVars>>
  \/ RefetchResolved /\ UNCHANGED <<settingsVars, historyVars>>
  \/ RefetchRejected /\ UNCHANGED <<settingsVars, historyVars>>

SpecModalSaved == InitModalView /\ [][NextModalSaved]_vars

\* router/index.ts: the three views; the router shows one of them at a time.
Routes == {"/", "/history", "/settings"}

\* The application is opened on one of its routes.
InitApp ==
  /\ InitDashboard /\ tzShift = 0
  /\ InitSettingsRefs /\ route \in Routes
  /\ InitHistory
  /\ InitModal

\* The completions of the HTTP requests of each kind.
MountFetchCompletes ==
  /\ route = "/"
  /\ MountFetchResolvedFrom(FirstSnapshotResponses) \/ MountFetchRejected
  /\ UNCHANGED <<settingsVars, historyVars, modalVars>>

LoadConfigCompletes ==
  /\ route = "/settings"
  /\ LoadConfigResolved \/ LoadConfigRejected
  /\ UNCHANGED <<dashVars, historyVars, modalVars>>

SaveCompletes ==
  /\ route = "/settings"
  /\ SaveResolved \/ SaveRejected
  /\ UNCHANGED <<dashVars, historyVars, modalVars>>

FetchCompletes ==
  /\ route = "/history"
  /\ FetchResolved \/ FetchRejected
  /\ UNCHANGED <<dashVars, settingsVars, modalVars>>

DeleteCompletes ==
  /\ route = "/history"
  /\ DeleteResolved \/ DeleteRejected
  /\ UNCHANGED <<dashVars, settingsVars, modalVars>>

CreateCompletes ==
  /\ route = "/"
  /\ CreateResolved \/ CreateRejected
  /\ UNCHANGED <<dashVars, settingsVars, historyVars>>

ListCompletes ==
  /\ route = "/"
  /\ ListResolved \/ ListRejected
  /\ UNCHANGED <<dashVars, settingsVars, historyVars>>

RefetchCompletes ==
  /\ route = "/"
  /\ RefetchResolved \/ RefetchRejected
  /\ UNCHANGED <<settingsVars, historyVars>>

\* The user's clicks in the view the router shows. A click that leads to a
\* further request is taken only while the request budget leaves room for
\* the requests its handler goes on to issue.
NextApp ==
  \/ MountFetchCompletes
  \/ LoadConfigCompletes
  \/ SaveCompletes
  \/ FetchCompletes
  \/ DeleteCompletes
  \/ CreateCompletes
  \/ ListCompletes
  \/ RefetchCompletes
  \/ route = "/settings" /\ SaveClick /\ UNCHANGED <<dashVars, historyVars, modalVars>>
  \/ route = "/history" /\ HistoryMounted /\ UNCHANGED <<dashVars, settingsVars, modalVars>>
  \/ /\ route = "/history"
     /\ deleting = {} \/ issued + 2 <= MaxRequests
     /\ goToPage
     /\ UNCHANGED <<dashVars, settingsVars, modalVars>>
  \/ /\ route = "/history"
     /\ issued + 1 <= MaxRequests
     /\ RemoveClick
     /\ UNCHANGED <<dashVars, settingsVars, modalVars>>
  \/ route = "/" /\ HeaderClick /\ UNCHANGED <<dashVars, settingsVars, historyVars>>
  \/ route = "/" /\ CloseClick /\ UNCHANGED <<dashVars, settingsVars, historyVars>>
  \/ /\ route = "/"
     /\ refetching < MaxRefetch
     /\ SubmitClick
     /\ UNCHANGED <<dashVars, settingsVars, historyVars>>

\* api.ts sets a timeout on every request: a request in flight completes,
\* with one outcome or another.
RequestsComplete ==
  /\ WF_vars(MountFetchCompletes)
  /\ WF_vars(LoadConfigCompletes)
  /\ WF_vars(SaveCompletes)
  /\ WF_vars(FetchCompletes)
  /\ WF_vars(DeleteCompletes)
  /\ WF_vars(CreateCompletes)
  /\ WF_vars(ListCompletes)
  /\ WF_vars(RefetchCompletes)

SpecApp == InitApp /\ [][NextApp]_vars /\ RequestsComplete

----------------------------------------------------------------------------
(* Properties of the two conversions (SettingsView.vue)                     *)

\* r is n / d rounded to the nearest integer, d > 0 (a tie going up)
IsRounded(r, n, d) == d * (2 * r - 1) <= 2 * n /\ 2 * n < d * (2 * r + 1)

\* C13: for every percent p in [0,100] with two decimals,
\* percentFromHours(hoursFromPercent(p)) differs from p by at most 0.01.
C13_RoundTrip ==
  (/\ lastEvent = "percentInput"
   /\ ~IsNull(percentInput)
   /\ Val(percentInput) % 10 = 0
   /\ 0 <= Val(percentInput) /\ Val(percentInput) <= 100 * 1000)
  => LET back == 10 * percentFromHours(Some(hoursFromPercent(percentInput)))
     IN /\ back - Val(percentInput) <= 10
        /\ Val(percentInput) - back <= 10
        /\ hoursFromPercent(percentInput) > 0
             => weeklyHoursInput = Some(hoursFromPercent(percentInput))

\* The percent field was edited to 0.19: 0.32 hours, which is 0.19 percent.
C13_Witness ==
  /\ lastEvent = "percentInput"
  /\ percentInput = Some(190)
  /\ weeklyHoursInput = Some(32)
  /\ percentFromHours(weeklyHoursInput) = 19

\* C14: percentFromHours is round((hours / 168) x 10000) / 100 for every
\* finite hours > 0 (40 gives 23.81) and 0 for hours that are zero, negative
\* or not finite.
C14_PercentFromHours ==
  lastEvent = "hoursInput" =>
    LET r == percentFromHours(weeklyHoursInput)
    IN /\ percentInput = Some(10 * r)
       /\ (IsNull(weeklyHoursInput) \/ Val(weeklyHoursInput) <= 0) => r = 0
       /\ (~IsNull(weeklyHoursInput) /\ Val(weeklyHoursInput) > 0)
            => IsRounded(r, Val(weeklyHoursInput) * 100, 168)
       /\ weeklyHoursInput = Some(4000) => r = 2381

\* The hours field was edited to 40: the percent field shows 23.81.
C14_Witness ==
  /\ lastEvent = "hoursInput"
  /\ weeklyHoursInput = Some(4000)
  /\ percentInput = Some(23810)

\* C15: hoursFromPercent is round((percent / 100) x 168 x 100) / 100 for
\* every percent in [0,100] (50 gives 84, 100 gives 168, 0 gives 0) and 0 for
\* a percent below 0, above 100 or not a finite number.
C15_HoursFromPercent ==
  lastEvent = "percentInput" =>
    LET h == hoursFromPercent(percentInput)
    IN /\ (\/ IsNull(percentInput)
           \/ Val(percentInput) < 0
           \/ Val(percentInput) > 100 * 1000) => h = 0
       /\ (/\ ~IsNull(percentInput)
           /\ 0 <= Val(percentInput)
           /\ Val(percentInput) <= 100 * 1000)
            => IsRounded(h, Val(percentInput) * 168, 1000)
       /\ percentInput = Some(50000) => h = 8400
       /\ percentInput = Some(100000) => h = 16800
       /\ percentInput = Some(0) => h = 0
       /\ h > 0 => weeklyHoursInput = Some(h)

\* The percent field was edited to 100: the hours field holds 168.
C15_Witness ==
  /\ lastEvent = "percentInput"
  /\ percentInput = Some(100000)
  /\ weeklyHoursInput = Some(16800)

----------------------------------------------------------------------------
(* Properties of the history view (HistoryView.vue)                         *)

\* the refs of the history view and its requests in flight
historyState == <<dateStart, dateEnd, page, result, hLoading, hError,
                  deletingId, pending, deleting, awaited, issued>>

\* C16: there is no guard against out-of-order completion: the response that
\* completes is stored in result whatever the order of issue, so once every
\* request has completed result can be the response to an older request than
\* the one issued last for the current page and date range.
C16_LastCompletionWins ==
  [][hEvent' = "fetchResolved" =>
       \E r \in pending :
         /\ pending' = pending \ {r}
         /\ ~IsNull(result')
         /\ Val(result').request = r
    ]_vars

\* Every request has completed, the last one issued was for the current date
\* range, and result holds the response to an older request for another
\* date range.
C16_Witness ==
  /\ hEvent = "fetchResolved"
  /\ pending = {}
  /\ canFetch(dateStart, dateEnd)
  /\ ~IsNull(result)
  /\ Val(result).request.seq < issued
  /\ <<Val(result).request.dateStart, Val(result).request.dateEnd>>
       # <<dateStart, dateEnd>>

\* C17: whenever a paged-list request issued by fetchPage has not yet
\* completed, loading is true, also when two fetchPage calls overlap.
C17_LoadingWhilePending == pending # {} => hLoading

\* C18: at most one delete request is in flight; deletingId is the id of the
\* entry for the duration of its delete and of the refetch that follows; a
\* removeEntry call made while deletingId is non-null issues no request and
\* changes no state.
C18_OneDeleteInFlight ==
  [][/\ Cardinality(deleting') <= 1
     /\ \A entryId \in deleting' : deletingId' = Some(entryId)
     /\ \A a \in awaited' : deletingId' = Some(a.id) /\ deleting' = {}
     /\ (hEvent' = "removeEntry" /\ ~IsNull(deletingId))
          => UNCHANGED historyState
    ]_vars

\* While the refetch after the delete of entry "a" is in flight, the remove
\* button of entry "b" was clicked.
C18_Witness ==
  /\ hEvent = "removeEntry"
  /\ deletingId = Some("a")
  /\ deleting = {}
  /\ awaited # {}
  /\ ~IsNull(result) /\ "b" \in Val(result).content

----------------------------------------------------------------------------
(* Failures and empty answers                                               *)

\* C19: after saveSystemConfig fails, error holds a message, saving is false
\* again, no navigation happens and the settings form is shown again so that
\* save can be triggered once more.
C19_FormShownAfterFailedSave ==
  lastEvent = "saveRejected" =>
    /\ ~IsNull(sError)
    /\ ~sSaving
    /\ route = "/settings"
    /\ FormShown

\* C20: when the mount-time fetch receives HTTP 204 or a null / empty body,
\* the dashboard ends with loading = false, error = null and no projection,
\* and shows the 'no configuration' message, not the error message.
C20_EmptyProjection ==
  (/\ ~IsNull(received)
   /\ \/ Val(received).status = 204
      \/ Val(received).kind \in {"null", "empty"})
  => /\ mountPc = "done"
     /\ ~loading
     /\ IsNull(error)
     /\ IsNull(projection)
     /\ DashboardBranch(loading, error, projection) = "dashboard-empty"
     /\ IsNull(bar)

\* The mount-time fetch was answered 204 No Content.
C20_Witness ==
  /\ mountPc = "done"
  /\ received = Some([status |-> 204, kind |-> "empty"])
  /\ DashboardBranch(loading, error, projection) = "dashboard-empty"

\* C21: when deleteEntry fails (also for an entry that no longer exists),
\* error is set to the failure message, no refetch of the page is issued,
\* result and page are unchanged and deletingId is reset to null.
C21_FailedDelete ==
  [][hEvent' = "deleteRejected" =>
       /\ \E e \in DeleteFailures :
            hError' = Some(IF e.isError THEN e.message
                           ELSE "Erro ao remover entrada")
       /\ pending' = pending /\ issued' = issued /\ awaited' = awaited
       /\ hLoading' = hLoading
       /\ result' = result
       /\ page' = page
       /\ IsNull(deletingId')
       /\ Cardinality(deleting') < Cardinality(deleting)
    ]_vars

\* The delete of a listed entry was answered 404.
C21_Witness ==
  /\ hEvent = "deleteRejected"
  /\ hError = Some("Request failed with status code 404")
  /\ IsNull(deletingId)
  /\ deleting = {}
  /\ ~IsNull(result) /\ Val(result).content # {}

\* C24: the history view never issues a paged-list request with an invalid
\* date range: no request is in flight whose start or end date is empty or
\* whose start date is after its end date.
C24_NoInvalidRangeRequest ==
  \A r \in pending :
    /\ ~IsNull(r.dateStart)
    /\ ~IsNull(r.dateEnd)
    /\ YearOf(Val(r.dateStart)) <= YearOf(Val(r.dateEnd))

\* C29: the page index stays within the range of the last result: whenever
\* no request is in flight and result has totalPages > 0,
\* 0 <= page < result.totalPages.
C29_PageInRange ==
  (pending = {} /\ ~IsNull(result) /\ Val(result).totalPages > 0)
  => (0 <= page /\ page < Val(result).totalPages)

----------------------------------------------------------------------------
(* Validation before submission                                             *)

ValidationMessage == "Informe uma expectativa de horas válida."

----------------------------------------------------------------------------
(* Properties of the entry modal (HourEntryModal.vue)                       *)

C25_RefetchKeepsSnapshot ==
  [][/\ mEvent' = "createResolved" => refetching' = refetching + 1
     /\ refetching' = refetching - 1 =>
          /\ loading' = loading
          /\ error' = error
          /\ \/ projection' = projection /\ bar' = bar
             \/ /\ mEvent' = "refetchResolved"
                /\ \E w \in SnapshotWeeks : projection' = Some(w)
                /\ bar' = Some(WeekRow(Val(projection')))
    ]_vars

\* A refetch failed: the projection shown before is still displayed, with no
\* error.
C25_Witness ==
  /\ mEvent = "refetchRejected"
  /\ refetching = 0
  /\ ~IsNull(projection)
  /\ ~loading
  /\ IsNull(error)
  /\ bar = Some(WeekRow(Val(projection)))

\* C26: each time show goes from false to true the form is re-initialised:
\* date is the initialDate passed by the opener when non-empty and today
\* otherwise, timeFrom, timeTo, directHours and description are back at their
\* defaults, error is cleared and the entries of that date are requested; a
\* day click opens the modal only for a day that is not past, with that
\* day's date as initialDate.
C26_ReinitialisedOnOpen ==
  [][(~entryModalOpen /\ entryModalOpen') =>
       /\ date' = IF ~IsNull(entryModalInitialDate')
                  THEN entryModalInitialDate' ELSE Some(Today)
       /\ timeFrom' = <<9, 0>>
       /\ timeTo' = <<18, 0>>
       /\ directHours' = Some(800)
       /\ description' = ""
       /\ IsNull(mError')
       /\ loadingEntries'
       /\ Len(listPending') > Len(listPending)
       /\ \A i \in 1 .. Len(listPending') :
            IF i <= Len(listPending)
            THEN listPending'[i] = listPending[i]
            ELSE listPending'[i] = Val(date')
       /\ mEvent' = "dayClick" =>
            \E day \in DaysShown : ~day.past /\ entryModalInitialDate' = day.date
       /\ mEvent' = "headerClick" => IsNull(entryModalInitialDate')
    ]_vars

\* The modal was opened, switched to direct mode and closed; a click on the
\* day ball of day 3 opened it again.
C26_Witness ==
  /\ mEvent = "dayClick"
  /\ entryModalOpen
  /\ inputMode = "direct"
  /\ entryModalInitialDate = Some(3)
  /\ date = Some(3)
  /\ directHours = Some(800)
  /\ description = ""
  /\ IsNull(mError)
  /\ loadingEntries

\* C27: a successful createHourEntry emits 'saved' and then 'close', once
\* each; a failed one emits neither and sets error to the failure message,
\* so the modal stays as it is; the request is in flight only while
\* submitting is true, and submitting is false after either outcome.
C27_SubmitEvents ==
  [][/\ mEvent' = "createResolved" =>
          /\ emitted' = <<"saved", "close">>
          /\ ~submitting'
          /\ ~entryModalOpen'
          /\ refetching' = refetching + 1
          /\ mError' = mError
     /\ mEvent' = "createRejected" =>
          /\ emitted' = <<>>
          /\ \E e \in Failures :
               mError' = Some(IF e.isError THEN e.message ELSE "Erro ao salvar")
          /\ ~submitting'
          /\ entryModalOpen' = entryModalOpen
          /\ refetching' = refetching
     /\ submitting' = ~IsNull(createRequest')
     /\ mEvent' \notin {"createResolved", "close"} => emitted' = <<>>
    ]_vars

\* An entry was created: both events were emitted, the modal is closed and
\* the projection is being fetched again.
C27_Witness ==
  /\ mEvent = "createResolved"
  /\ emitted = <<"saved", "close">>
  /\ ~entryModalOpen
  /\ ~submitting
  /\ refetching = 1

MinutesOfDay(t) == t[1] * 60 + t[2]

C30_FlagsReleased ==
  /\ (route = "/" /\ loading) ~> ~loading
  /\ (route = "/settings" /\ sLoading) ~> ~sLoading
  /\ sSaving ~> ~sSaving
  /\ hLoading ~> ~hLoading
  /\ ~IsNull(deletingId) ~> IsNull(deletingId)
  /\ submitting ~> ~submitting
  /\ loadingEntries ~> ~loadingEntries

\* The settings were saved, the dashboard loaded and an entry was created:
\* the flags of the three handlers are down again.
C30_Witness ==
  /\ sPc = "left" /\ route = "/"
  /\ ~sSaving /\ ~sLoading
  /\ ~loading
  /\ mEvent = "createResolved"
  /\ ~submitting
  /\ ~loadingEntries

====
